---- MODULE Spec2Model ----
(***************************************************************************)
(* img2ansi: the staged frame pipeline of main (decode -> concatenate ->   *)
(* ResizeFrames -> LoopFrames -> writeANSIFrames), the interrupt handler   *)
(* and the frame buffer, as a state machine; and the quantizers,           *)
(* writeANSIPixels and the gifrenderer, each followed call by call.        *)
(*                                                                         *)
(* Channels.  An unbuffered Go channel is a rendezvous: a send and the     *)
(* matching receive are one step, enabled when the sender is at its send   *)
(* and the receiver at its receive.  A closed channel is the state "done"  *)
(* of the goroutine that owns it, because every stage closes its output    *)
(* with a deferred close.  A select with several ready cases takes any of  *)
(* them.                                                                   *)
(***************************************************************************)
EXTENDS Integers, Sequences, FiniteSets, TLC

\* ------------------------------------------------------------------ bounds
MaxFrames == 2      \* frames of all the image arguments together
MaxRepeat == 1      \* largest non-negative -repeat value explored
MaxSignals == 2     \* interrupts delivered to the process
MaxFeed == 3        \* frames offered to writeANSIFrames in SpecDraw

\* -------------------------------------------------------- program constants
DelayDefault == 33  \* const DelayDefault = 33 * time.Millisecond

Max0(x) == IF x > 0 THEN x ELSE 0
MinOf(x, y) == IF x < y THEN x ELSE y

\* time is counted in milliseconds; elapsed-time counters saturate just above
\* the longest delay the program can choose
TimeCap == DelayDefault + 1

\* replay passes followed when the loop is indefinite: one more than any
\* finite repeat count
MaxPass == MaxRepeat + 1

VARIABLES
    opts,        \* FrameOptions: Animate, Repeat, Delay
    args,        \* the decoded arguments: kind, number of frames, loop count
    argi,        \* main: index of the next argument to decode
    src,         \* per argument: the buffered channel returned by decodeFrames
    sender,      \* per argument: the goroutine of decodeFramesGIF
    cat,         \* the goroutine of main that concatenates the arguments
    rz,          \* the goroutine of ResizeFrames
    lp,          \* the goroutine of LoopFrames
    stop,        \* TRUE once the stop channel is closed
    sigq,        \* number of signals buffered in sig (capacity 1)
    notifying,   \* TRUE while sig is registered with signal.Notify
    hpc,         \* position of the signal goroutine
    gotsignal,   \* TRUE once gotsignal has been assigned
    nsig,        \* interrupts still to be delivered
    intrDrawing, \* TRUE once an interrupt arrived during an animated drawing
    sync,        \* goroutines for which the write of gotsignal happens-before
    proc,        \* "running", or how the process ended
    mainpc,      \* position of main / writeANSIFrames
    w,           \* locals of writeANSIFrames: nframe, lastRect height, frame, delay
    gate,        \* frameGate: a closed channel, or a timer with time left
    buf,         \* frameBuffer.b
    out,         \* what the output stream has received
    recvd,       \* id and height of the frames writeANSIFrames received, in order
    sinceRecv,   \* time elapsed since the current frame was received
    sinceFlush,  \* time elapsed since the previous flush started
    quant,       \* a call of a quantizer: color, AlphaThreshold, palette, result
    enc,         \* a call of writeANSIPixels: image, palette, pad, text written
    GIF,         \* the decoded GIF handed to newGIFRenderer
    rend,        \* the gifrenderer: index, Frames, frame, the images made,
                 \* and what its calls did
    shown,       \* the composited frames in the order they are displayed
    rect         \* a call of sizeRect: size, width, height, fontAspect, result

\* the state of the calls of the pure functions, which the pipeline actions
\* leave alone
fnVars == <<quant, enc, GIF, rend, shown, rect>>

pipeVars == <<opts, args, argi, src, sender, cat, rz, lp, stop, sigq, notifying,
              hpc, gotsignal, nsig, intrDrawing, sync, proc, mainpc, w, gate,
              buf, out, recvd, sinceRecv, sinceFlush>>

vars == <<pipeVars, fnVars>>

sigVars  == <<sigq, notifying, hpc, gotsignal, nsig, intrDrawing>>
timeVars == <<sinceRecv, sinceFlush>>
drawVars == <<w, gate, buf, out, recvd>>
stageVars == <<src, sender, cat, rz, lp>>

\* ------------------------------------------------------------------ frames
NoFrame == [id |-> -1, Delay |-> 0, LoopCount |-> 0, h |-> 0]

\* img.Delay[i] of a decoded GIF, in milliseconds (time.Second/100 units)
GifDelay(j) == IF j % 2 = 1 THEN 10 ELSE 0

RECURSIVE Offset(_)
Offset(a) == IF a <= 1 THEN 0 ELSE Offset(a - 1) + args[a - 1].n

Total == Offset(Len(args) + 1)

\* the j-th frame of argument a; ids number the frames in source order
SourceFrame(a, j) ==
    IF args[a].kind = "gif"
    THEN [id |-> Offset(a) + j - 1, Delay |-> GifDelay(j),
          LoopCount |-> args[a].loop, h |-> args[a].h]
    ELSE [id |-> Offset(a) + j - 1, Delay |-> 0, LoopCount |-> 0, h |-> args[a].h]

\* the arguments: static images (one frame, no loop count) and GIFs of k
\* layers whose LoopCount is 3, at most MaxFrames frames in all
ArgKinds ==
    {[kind |-> "img", n |-> 1, loop |-> 0, h |-> 1]} \cup
    {[kind |-> "gif", n |-> k, loop |-> 3, h |-> 2] : k \in 1..MaxFrames}
RECURSIVE SumN(_)
SumN(s) == IF s = <<>> THEN 0 ELSE Head(s).n + SumN(Tail(s))
ArgSeqs ==
    {s \in UNION {[1..m -> ArgKinds] : m \in 1..MaxFrames} : SumN(s) <= MaxFrames}

OptDelays == {0, 20}

\* --------------------------------------------------------------- the stages
Procs == {"main", "cat", "rz", "lp"}

\* a rendezvous orders both goroutines after whatever either had observed
Meet(p, q) == IF {p, q} \cap sync # {} THEN sync \cup {p, q} ELSE sync
\* q receives from the channel p closed
AfterClose(p, q) == IF p \in sync THEN sync \cup {q} ELSE sync

Running == proc = "running"

RenderInterruptedNever(stopped) == FALSE
\* decodeFramesGIF, lines 802-809: the compositing loop polls stop after each
\* layer and returns the error "gif rendering interrupted" once it is closed
RenderInterrupted(stopped) == stopped

\* main, lines 458-464: decodeFramesURL of the next argument.  A static image
\* is decoded synchronously into a closed channel of capacity 1 (decodeFrames);
\* a GIF is rendered in full, with a check of stop after each layer that makes
\* decodeFramesGIF fail, and then streamed by a goroutine.
DecodeArg ==
    /\ Running /\ mainpc = "decode" /\ argi <= Len(args)
    /\ IF args[argi].kind = "gif"
       THEN IF RenderInterrupted(stop)
            THEN /\ proc' = "exit1"
                 /\ UNCHANGED <<argi, src, sender>>
            ELSE /\ sender' = [sender EXCEPT ![argi] = [pc |-> "run", i |-> 1]]
                 /\ argi' = argi + 1
                 /\ UNCHANGED <<src, proc>>
       ELSE /\ src' = [src EXCEPT ![argi] =
                        [buf |-> <<SourceFrame(argi, 1)>>, closed |-> TRUE, hb |-> FALSE]]
            /\ argi' = argi + 1
            /\ UNCHANGED <<sender, proc>>
    /\ UNCHANGED <<fnVars, opts, args, cat, rz, lp, stop, sigVars, sync, mainpc,
                   drawVars, timeVars>>

\* main, lines 465-494: the concatenating goroutine, ResizeFrames and
\* LoopFrames are started and main enters writeANSIFrames
StartPipeline ==
    /\ Running /\ mainpc = "decode" /\ argi > Len(args)
    /\ cat' = [cat EXCEPT !.pc = "recv"]
    /\ rz' = [rz EXCEPT !.pc = "recv"]
    /\ lp' = [lp EXCEPT !.pc = "collect"]
    /\ mainpc' = "select"
    /\ UNCHANGED <<fnVars, opts, args, argi, src, sender, stop, sigVars, sync, proc,
                   drawVars, timeVars>>

\* decodeFramesGIF, lines 816-828: c has room for every frame, so the send
\* case of the select is always ready
GIFSend(a) ==
    /\ Running /\ sender[a].pc = "run" /\ sender[a].i <= args[a].n
    /\ src' = [src EXCEPT ![a].buf = Append(@, SourceFrame(a, sender[a].i))]
    /\ sender' = [sender EXCEPT ![a].i = @ + 1]
    /\ UNCHANGED <<fnVars, opts, args, argi, cat, rz, lp, stop, sigVars, sync, proc,
                   mainpc, drawVars, timeVars>>

\* decodeFramesGIF, lines 814 and 824-825: return on stop, or after the last
\* frame; the deferred close(c) runs
GIFReturn(a) ==
    /\ Running /\ sender[a].pc = "run"
    /\ \/ sender[a].i > args[a].n /\ src' = [src EXCEPT ![a].closed = TRUE]
       \/ /\ sender[a].i <= args[a].n /\ stop
          /\ src' = [src EXCEPT ![a].closed = TRUE, ![a].hb = TRUE]
    /\ sender' = [sender EXCEPT ![a].pc = "done"]
    /\ UNCHANGED <<fnVars, opts, args, argi, cat, rz, lp, stop, sigVars, sync, proc,
                   mainpc, drawVars, timeVars>>

ChanHeadLast(b) == b[Len(b)]
\* the next value a receive takes from a buffered channel
ChanHead(b) == Head(b)
ChanRestLast(b) == SubSeq(b, 1, Len(b) - 1)
ChanRest(b) == Tail(b)

\* main, line 468: `for frame := range frames` takes the next frame
ConcatRecv ==
    /\ Running /\ cat.pc = "recv" /\ cat.ci <= Len(args)
    /\ src[cat.ci].buf # <<>>
    /\ cat' = [cat EXCEPT !.pc = "send", !.f = ChanHead(src[cat.ci].buf)]
    /\ src' = [src EXCEPT ![cat.ci].buf = ChanRest(@)]
    /\ UNCHANGED <<fnVars, opts, args, argi, sender, rz, lp, stop, sigVars, sync, proc,
                   mainpc, drawVars, timeVars>>

\* main, lines 466-468: the channel of the current argument is closed and
\* drained: go on to the next argument, or return and close(_frames)
ConcatNext ==
    /\ Running /\ cat.pc = "recv" /\ cat.ci <= Len(args)
    /\ src[cat.ci].buf = <<>> /\ src[cat.ci].closed
    /\ cat' = [cat EXCEPT !.ci = @ + 1,
                          !.pc = IF cat.ci = Len(args) THEN "done" ELSE "recv"]
    /\ sync' = IF src[cat.ci].hb THEN sync \cup {"cat"} ELSE sync
    /\ UNCHANGED <<fnVars, opts, args, argi, src, sender, rz, lp, stop, sigVars, proc,
                   mainpc, drawVars, timeVars>>

ResizedKeepLoop(f) == f
\* ResizeFrames, lines 567-576: the frame sent on is a new Frame holding the
\* resized image and f.Delay; no other field is set.  With neither -width nor
\* -height given sizeRect keeps the number of lines.
Resized(f) == [id |-> f.id, Delay |-> f.Delay, LoopCount |-> 0, h |-> f.h]

\* main line 469 with ResizeFrames line 563: _frames <- frame is received
ResizeFramesRecv ==
    /\ Running /\ cat.pc = "send" /\ rz.pc = "recv"
    /\ rz' = [pc |-> "send", f |-> Resized(cat.f)]
    /\ cat' = [cat EXCEPT !.pc = "recv", !.f = NoFrame]
    /\ sync' = Meet("cat", "rz")
    /\ UNCHANGED <<fnVars, opts, args, argi, src, sender, lp, stop, sigVars, proc,
                   mainpc, drawVars, timeVars>>

\* ResizeFrames, lines 561-566: return on stop or on the closed input; the
\* deferred close(scaled) runs
ResizeFramesReturn ==
    /\ Running /\ rz.pc = "recv"
    /\ \/ stop /\ sync' = sync \cup {"rz"}
       \/ cat.pc = "done" /\ sync' = AfterClose("cat", "rz")
    /\ rz' = [pc |-> "done", f |-> NoFrame]
    /\ UNCHANGED <<fnVars, opts, args, argi, src, sender, cat, lp, stop, sigVars, proc,
                   mainpc, drawVars, timeVars>>

NumLoopFromGIF(loopCount, repeat) == IF repeat >= 0 THEN repeat ELSE loopCount
\* LoopFrames, lines 534-539
NumLoop(loopCount, repeat) ==
    IF repeat >= 0 THEN repeat ELSE IF repeat < 0 THEN -1 ELSE loopCount

AfterCollectOnce(l) == [l EXCEPT !.pc = "done"]
AfterCollectUnchecked(l) ==
    [l EXCEPT !.pc = "replay", !.numloop = NumLoop(0, opts.Repeat), !.n = 0, !.j = 1]
\* LoopFrames, lines 530-541: after the first pass
AfterCollect(l) ==
    IF Len(l.all) = 0
    THEN [l EXCEPT !.pc = "done"]
    ELSE LET nl == NumLoop(l.all[1].LoopCount, opts.Repeat) IN
         IF 0 = nl THEN [l EXCEPT !.pc = "done", !.numloop = nl]
         ELSE [l EXCEPT !.pc = "replay", !.numloop = nl, !.n = 0, !.j = 1]

AfterReplaySendLate(l) ==
    IF l.j < Len(l.all) THEN [l EXCEPT !.j = @ + 1]
    ELSE IF l.n = l.numloop THEN [l EXCEPT !.pc = "done", !.n = @ + 1]
    ELSE [l EXCEPT !.n = @ + 1, !.j = 1]
\* LoopFrames, lines 541-549: after `looped <- f` of frame j in pass n
AfterReplaySend(l) ==
    IF l.j < Len(l.all) THEN [l EXCEPT !.j = @ + 1]
    ELSE IF l.n + 1 = l.numloop THEN [l EXCEPT !.pc = "done", !.n = @ + 1]
    ELSE [l EXCEPT !.n = @ + 1, !.j = 1]

\* ResizeFrames line 573 with LoopFrames lines 517-521: scaled <- frame is
\* received and appended to allFrames
LoopFramesCollect ==
    /\ Running /\ rz.pc = "send" /\ lp.pc = "collect"
    /\ lp' = [lp EXCEPT !.pc = "fwd", !.all = Append(@, rz.f)]
    /\ rz' = [pc |-> "recv", f |-> NoFrame]
    /\ sync' = Meet("rz", "lp")
    /\ UNCHANGED <<fnVars, opts, args, argi, src, sender, cat, stop, sigVars, proc,
                   mainpc, drawVars, timeVars>>

\* LoopFrames, lines 517-520 and 530-541: the input is closed
LoopFramesSourceClosed ==
    /\ Running /\ lp.pc = "collect" /\ rz.pc = "done"
    /\ lp' = AfterCollect(lp)
    /\ sync' = AfterClose("rz", "lp")
    /\ UNCHANGED <<fnVars, opts, args, argi, src, sender, cat, rz, stop, sigVars, proc,
                   mainpc, drawVars, timeVars>>

\* LoopFrames, lines 515-516, 523-524 and 544-545: return on stop; the
\* deferred close(looped) runs
LoopFramesStop ==
    /\ Running /\ lp.pc \in {"collect", "fwd", "replay"} /\ stop
    /\ lp' = [lp EXCEPT !.pc = "done"]
    /\ sync' = sync \cup {"lp"}
    /\ UNCHANGED <<fnVars, opts, args, argi, src, sender, cat, rz, stop, sigVars, proc,
                   mainpc, drawVars, timeVars>>

\* ---------------------------------------------------------- writeANSIFrames
FrameDelayFrameFirst(optDelay, fDelay) ==
    IF fDelay # 0 THEN fDelay ELSE IF optDelay # 0 THEN optDelay ELSE DelayDefault
\* writeANSIFrames, lines 649-655: the delay before the frame, in milliseconds
FrameDelay(optDelay, fDelay) ==
    IF optDelay # 0 THEN optDelay
    ELSE IF fDelay # 0 THEN fDelay
    ELSE DelayDefault

NewGateAlways(animate, nframe, d, old) ==
    IF animate THEN [timer |-> TRUE, left |-> Max0(d)] ELSE old
\* writeANSIFrames, lines 646-657: frameGate = time.After(delay) for every
\* frame but the first of an animation; otherwise frameGate is left alone
NewGate(animate, nframe, d, old) ==
    IF animate /\ nframe > 0 THEN [timer |-> TRUE, left |-> Max0(d)] ELSE old

\* line 672: <-frameGate is ready on the closed channel made at lines 619-623
\* and on a timer that has fired
GateReady == ~gate.timer \/ gate.left = 0

CursorUpAlways(animate, up) ==
    IF animate THEN <<[t |-> "up", n |-> up]>> ELSE <<>>
\* writeANSIFrames, lines 660-664: ESC[<up>A is written to the buffer
CursorUp(animate, up) ==
    IF animate /\ up > 0 THEN <<[t |-> "up", n |-> up]>> ELSE <<>>

\* writeANSIPixels: one line of text for each row of the image, each ending
\* with ANSIClear and a newline
Pixels(f) == [k \in 1..f.h |-> [t |-> "line", n |-> f.id]]

\* main, line 414: io.WriteString(os.Stdout, ANSIClear)
Clear == [t |-> "clear", n |-> 0]

\* writeANSIFrames, lines 641-665: a frame is received; in animated mode the
\* gate is armed and the cursor-up sequence is buffered
WriterTake(f) ==
    /\ mainpc = "select"
    /\ LET d == FrameDelay(opts.Delay, f.Delay) IN
       /\ w' = [w EXCEPT !.f = f,
                         !.delay = d,
                         !.lastH = IF opts.Animate THEN f.h ELSE @]
       /\ gate' = NewGate(opts.Animate, w.nframe, d, gate)
    /\ buf' = buf \o CursorUp(opts.Animate, w.lastH)
    /\ mainpc' = "encode"
    /\ recvd' = Append(recvd, [id |-> f.id, h |-> f.h])
    /\ sinceRecv' = 0
    /\ UNCHANGED <<out, sinceFlush>>

\* LoopFrames line 525 with writeANSIFrames line 641: the frame just appended
\* is sent on looped and received
LoopFramesForward ==
    /\ Running /\ lp.pc = "fwd"
    /\ WriterTake(lp.all[Len(lp.all)])
    /\ lp' = [lp EXCEPT !.pc = "collect"]
    /\ sync' = Meet("lp", "main")
    /\ UNCHANGED <<fnVars, opts, args, argi, src, sender, cat, rz, stop, sigVars, proc>>

\* LoopFrames line 546 with writeANSIFrames line 641: a buffered frame is sent
\* again.  An indefinite loop is followed for MaxPass passes.
LoopFramesReplay ==
    /\ Running /\ lp.pc = "replay"
    /\ lp.numloop >= 0 \/ lp.n < MaxPass
    /\ WriterTake(lp.all[lp.j])
    /\ lp' = AfterReplaySend(lp)
    /\ sync' = Meet("lp", "main")
    /\ UNCHANGED <<fnVars, opts, args, argi, src, sender, cat, rz, stop, sigVars, proc>>

WriterEncodeRearm ==
    /\ Running /\ mainpc = "encode"
    /\ buf' = buf \o Pixels(w.f)
    /\ mainpc' = "gate"
    /\ gate' = NewGate(opts.Animate, w.nframe, w.delay, gate)
    /\ UNCHANGED <<fnVars, opts, args, argi, stageVars, stop, sigVars, sync, proc,
                   w, out, recvd, timeVars>>
\* writeANSIFrames, line 667: writeANSIPixels fills the buffer
WriterEncode ==
    /\ Running /\ mainpc = "encode"
    /\ buf' = buf \o Pixels(w.f)
    /\ mainpc' = "gate"
    /\ UNCHANGED <<fnVars, opts, args, argi, stageVars, stop, sigVars, sync, proc,
                   w, gate, out, recvd, timeVars>>

FlushResultsReset(b) ==
    {[err |-> FALSE, wrote |-> Len(b), b |-> <<>>]} \cup
    (IF b = <<>> THEN {}
     ELSE {[err |-> TRUE, wrote |-> m, b |-> <<>>] : m \in 0..Len(b)})
\* frameBuffer.Flush: io.Copy hands the whole of b.b to one Write of the
\* output stream (nothing is written for an empty buffer).  When all of it is
\* written and Write reports no error b.b is truncated; when Write reports an
\* error, after m bytes (a short write is an error, and a Write may report an
\* error after the last byte too), the error is returned and b.b is left as
\* it is.
FlushResults(b) ==
    {[err |-> FALSE, wrote |-> Len(b), b |-> <<>>]} \cup
    (IF b = <<>> THEN {}
     ELSE {[err |-> TRUE, wrote |-> m, b |-> b] : m \in 0..Len(b)})

LogFatalReturns == "running"
\* log.Fatal: the message is printed and the process exits with status 1,
\* without running deferred functions
LogFatal == "exit1"

\* writeANSIFrames, lines 672-679, and main, lines 494-497: the gate is passed
\* and the buffer flushed; an error is returned to main, which calls log.Fatal
WriterFlush ==
    /\ Running /\ mainpc = "gate" /\ GateReady
    /\ \E r \in FlushResults(buf) :
        /\ out' = out \o SubSeq(buf, 1, r.wrote)
        /\ buf' = r.b
        /\ IF r.err
           THEN mainpc' = "fatal" /\ proc' = LogFatal /\ w' = w
           ELSE mainpc' = "select" /\ proc' = proc
                /\ w' = [w EXCEPT !.nframe = @ + 1]
    /\ sinceFlush' = 0
    /\ UNCHANGED <<fnVars, opts, args, argi, stageVars, stop, sigVars, sync, gate,
                   recvd, sinceRecv>>

\* writeANSIFrames, lines 639-644: return nil on stop or on the closed input
WriterReturn ==
    /\ Running /\ mainpc = "select"
    /\ \/ stop /\ sync' = sync \cup {"main"}
       \/ lp.pc = "done" /\ sync' = AfterClose("lp", "main")
    /\ mainpc' = "defer"
    /\ UNCHANGED <<fnVars, opts, args, argi, stageVars, stop, sigVars, proc, drawVars,
                   timeVars>>

\* what main can read from gotsignal: the assigned value when the assignment
\* happens-before the read; otherwise the read races with the signal goroutine
\* and yields the old or the new value
GotsignalSeen ==
    IF "main" \in sync THEN {TRUE}
    ELSE IF gotsignal THEN {TRUE, FALSE} ELSE {FALSE}

\* main, lines 412-417 and 498: main returns and the deferred function runs;
\* log.Fatal exits with status 1, a plain return with status 0
MainDefer ==
    /\ Running /\ mainpc = "defer"
    /\ \E seen \in GotsignalSeen :
        IF seen
        THEN out' = Append(out, Clear) /\ proc' = "exit1"
        ELSE out' = out /\ proc' = "exit0"
    /\ mainpc' = "exited"
    /\ UNCHANGED <<fnVars, opts, args, argi, stageVars, stop, sigVars, sync, w, gate,
                   buf, recvd, timeVars>>

\* ------------------------------------------------------------------- time
\* d milliseconds pass
Tick(d) ==
    /\ gate' = [gate EXCEPT !.left = Max0(@ - d)]
    /\ sinceRecv' = MinOf(TimeCap, sinceRecv + d)
    /\ sinceFlush' = MinOf(TimeCap, sinceFlush + d)

\* the timer of time.After fires while writeANSIFrames waits for it
TimerFire ==
    /\ Running /\ mainpc = "gate" /\ gate.timer /\ gate.left > 0
    /\ Tick(gate.left)
    /\ UNCHANGED <<fnVars, opts, args, argi, stageVars, stop, sigVars, sync, proc,
                   mainpc, w, buf, out, recvd>>

\* ------------------------------------------------------- the interrupt
\* main is inside the loop of writeANSIFrames
Drawing == mainpc \in {"select", "encode", "gate"}

\* an interrupt is delivered to the process: relayed to sig while sig is
\* registered (dropped when sig is full), and fatal once signal.Stop has
\* restored the default action
Interrupt ==
    /\ Running /\ nsig > 0
    /\ nsig' = nsig - 1
    /\ IF notifying
       THEN sigq' = 1 /\ proc' = proc
       ELSE sigq' = sigq /\ proc' = "killed"
    /\ intrDrawing' = (intrDrawing \/ (opts.Animate /\ Drawing))
    /\ UNCHANGED <<fnVars, opts, args, argi, stageVars, stop, notifying, hpc, gotsignal,
                   sync, mainpc, drawVars, timeVars>>

\* main, lines 420-426, one statement at a time
HandlerRecv ==
    /\ Running /\ hpc = "range" /\ sigq > 0
    /\ sigq' = 0 /\ hpc' = "stopnotify"
    /\ UNCHANGED <<fnVars, opts, args, argi, stageVars, stop, notifying, gotsignal, nsig,
                   intrDrawing, sync, proc, mainpc, drawVars, timeVars>>

HandlerStopNotify ==
    /\ Running /\ hpc = "stopnotify"
    /\ notifying' = FALSE /\ hpc' = "set"
    /\ UNCHANGED <<fnVars, opts, args, argi, stageVars, stop, sigq, gotsignal, nsig,
                   intrDrawing, sync, proc, mainpc, drawVars, timeVars>>

HandlerSet ==
    /\ Running /\ hpc = "set"
    /\ gotsignal' = TRUE /\ hpc' = "close"
    /\ UNCHANGED <<fnVars, opts, args, argi, stageVars, stop, sigq, notifying, nsig,
                   intrDrawing, sync, proc, mainpc, drawVars, timeVars>>

\* close(stop); closing a closed channel panics
HandlerClose ==
    /\ Running /\ hpc = "close"
    /\ IF stop THEN proc' = "panic" /\ stop' = stop
               ELSE proc' = proc /\ stop' = TRUE
    /\ hpc' = "range"
    /\ UNCHANGED <<fnVars, opts, args, argi, stageVars, sigq, notifying, gotsignal, nsig,
                   intrDrawing, sync, mainpc, drawVars, timeVars>>

\* ------------------------------------------------------- the whole program
Repeats == -1..MaxRepeat

\* no call of a pure function is followed
InitFn ==
    /\ quant = [pc |-> "none"] /\ enc = [pc |-> "none"]
    /\ GIF = [pc |-> "none"] /\ rend = [pc |-> "none"] /\ shown = <<>>
    /\ rect = [pc |-> "none"]

InitDraw ==
    /\ InitFn
    /\ stop = FALSE /\ sigq = 0 /\ notifying = TRUE /\ hpc = "range"
    /\ gotsignal = FALSE /\ intrDrawing = FALSE /\ sync = {} /\ proc = "running"
    /\ w = [nframe |-> 0, lastH |-> 0, f |-> NoFrame, delay |-> 0]
    /\ gate = [timer |-> FALSE, left |-> 0]
    /\ buf = <<>> /\ out = <<>> /\ recvd = <<>>
    /\ sinceRecv = 0 /\ sinceFlush = 0

Init ==
    /\ opts \in [Animate : BOOLEAN, Repeat : Repeats, Delay : {0}]
    /\ args \in ArgSeqs
    /\ argi = 1
    /\ src = [a \in DOMAIN args |-> [buf |-> <<>>, closed |-> FALSE, hb |-> FALSE]]
    /\ sender = [a \in DOMAIN args |-> [pc |-> "idle", i |-> 1]]
    /\ cat = [pc |-> "idle", ci |-> 1, f |-> NoFrame]
    /\ rz = [pc |-> "idle", f |-> NoFrame]
    /\ lp = [pc |-> "idle", all |-> <<>>, n |-> 0, j |-> 1, numloop |-> 0]
    /\ mainpc = "decode"
    /\ nsig = MaxSignals
    /\ InitDraw

Next ==
    \/ DecodeArg
    \/ StartPipeline
    \/ \E a \in DOMAIN args : GIFSend(a)
    \/ \E a \in DOMAIN args : GIFReturn(a)
    \/ ConcatRecv
    \/ ConcatNext
    \/ ResizeFramesRecv
    \/ ResizeFramesReturn
    \/ LoopFramesCollect
    \/ LoopFramesSourceClosed
    \/ LoopFramesStop
    \/ LoopFramesForward
    \/ LoopFramesReplay
    \/ WriterEncode
    \/ WriterFlush
    \/ WriterReturn
    \/ MainDefer
    \/ TimerFire
    \/ Interrupt
    \/ HandlerRecv
    \/ HandlerStopNotify
    \/ HandlerSet
    \/ HandlerClose

Spec == Init /\ [][Next]_vars

\* ------------------------------------ the pipeline left to run undisturbed
\* No interrupt is delivered and the output stream accepts every write; the
\* repeat count is finite.  Every goroutine that can take a step eventually
\* takes it, and a timer that is running eventually fires.
WriterFlushOK == WriterFlush /\ mainpc' = "select"

InitQuiet ==
    /\ opts \in [Animate : BOOLEAN, Repeat : 0..MaxRepeat, Delay : {0}]
    /\ args \in ArgSeqs
    /\ argi = 1
    /\ src = [a \in DOMAIN args |-> [buf |-> <<>>, closed |-> FALSE, hb |-> FALSE]]
    /\ sender = [a \in DOMAIN args |-> [pc |-> "idle", i |-> 1]]
    /\ cat = [pc |-> "idle", ci |-> 1, f |-> NoFrame]
    /\ rz = [pc |-> "idle", f |-> NoFrame]
    /\ lp = [pc |-> "idle", all |-> <<>>, n |-> 0, j |-> 1, numloop |-> 0]
    /\ mainpc = "decode"
    /\ nsig = 0
    /\ InitDraw

NextQuiet ==
    \/ DecodeArg
    \/ StartPipeline
    \/ \E a \in DOMAIN args : GIFSend(a)
    \/ \E a \in DOMAIN args : GIFReturn(a)
    \/ ConcatRecv
    \/ ConcatNext
    \/ ResizeFramesRecv
    \/ ResizeFramesReturn
    \/ LoopFramesCollect
    \/ LoopFramesSourceClosed
    \/ LoopFramesForward
    \/ LoopFramesReplay
    \/ WriterEncode
    \/ WriterFlushOK
    \/ WriterReturn
    \/ MainDefer
    \/ TimerFire

FairQuiet ==
    /\ WF_vars(DecodeArg) /\ WF_vars(StartPipeline)
    /\ \A a \in 1..MaxFrames :
          /\ WF_vars(a \in DOMAIN args /\ GIFSend(a))
          /\ WF_vars(a \in DOMAIN args /\ GIFReturn(a))
    /\ WF_vars(ConcatRecv) /\ WF_vars(ConcatNext)
    /\ WF_vars(ResizeFramesRecv) /\ WF_vars(ResizeFramesReturn)
    /\ WF_vars(LoopFramesCollect) /\ WF_vars(LoopFramesSourceClosed)
    /\ WF_vars(LoopFramesForward) /\ WF_vars(LoopFramesReplay)
    /\ WF_vars(WriterEncode) /\ WF_vars(WriterFlushOK)
    /\ WF_vars(WriterReturn) /\ WF_vars(MainDefer) /\ WF_vars(TimerFire)

SpecQuiet == InitQuiet /\ [][NextQuiet]_vars /\ FairQuiet

\* -------------------------------------------- writeANSIFrames on its own
\* writeANSIFrames with any sender on its input channel: frames of any delay
\* and height arrive in any number up to MaxFeed, the channel is closed at any
\* moment, and time passes in steps while it runs.
FrameDelays == {0, 10}
Heights == {0, 1, 2}
TickSteps == {10}

FeedFrame ==
    /\ Running /\ lp.pc = "env" /\ Len(recvd) < MaxFeed
    /\ \E d \in FrameDelays, h \in Heights :
        WriterTake([id |-> Len(recvd), Delay |-> d, LoopCount |-> 0, h |-> h])
    /\ UNCHANGED <<fnVars, opts, args, argi, stageVars, stop, sigVars, sync, proc>>

\* the sender closes the channel, after observing stop or not
FeedClose ==
    /\ Running /\ lp.pc = "env"
    /\ lp' = [lp EXCEPT !.pc = "done"]
    /\ \E saw \in (IF stop THEN BOOLEAN ELSE {FALSE}) :
        sync' = IF saw THEN sync \cup {"lp"} ELSE sync
    /\ UNCHANGED <<fnVars, opts, args, argi, src, sender, cat, rz, stop, sigVars, proc,
                   mainpc, drawVars, timeVars>>

TimePasses ==
    /\ Running
    /\ \E d \in TickSteps : Tick(d)
    /\ UNCHANGED <<fnVars, opts, args, argi, stageVars, stop, sigVars, sync, proc,
                   mainpc, w, buf, out, recvd>>

InitDrawing ==
    /\ opts \in [Animate : BOOLEAN, Repeat : {0}, Delay : OptDelays]
    /\ args = <<>>
    /\ argi = 1
    /\ src = <<>>
    /\ sender = <<>>
    /\ cat = [pc |-> "done", ci |-> 1, f |-> NoFrame]
    /\ rz = [pc |-> "done", f |-> NoFrame]
    /\ lp = [pc |-> "env", all |-> <<>>, n |-> 0, j |-> 1, numloop |-> 0]
    /\ mainpc = "select"
    /\ nsig = 1
    /\ InitDraw

NextDrawing ==
    \/ FeedFrame
    \/ FeedClose
    \/ WriterEncode
    \/ WriterFlush
    \/ WriterReturn
    \/ MainDefer
    \/ TimePasses
    \/ Interrupt
    \/ HandlerRecv
    \/ HandlerStopNotify
    \/ HandlerSet
    \/ HandlerClose

SpecDraw == InitDrawing /\ [][NextDrawing]_vars

\* ------------------------------------------------- LoopFrames on its own
\* LoopFrames with any sender on its input channel: up to MaxFrames frames
\* arrive and the channel is closed at any moment, before the first frame too;
\* writeANSIFrames receives what LoopFrames sends.
LoopCounts == {0, 3}

\* the sender offers the next frame on the channel
SourceOffers ==
    /\ Running /\ rz.pc = "recv" /\ Len(lp.all) < MaxFrames
    /\ \E d \in FrameDelays, c \in LoopCounts :
        rz' = [pc |-> "send",
               f |-> [id |-> Len(lp.all), Delay |-> d, LoopCount |-> c, h |-> 1]]
    /\ UNCHANGED <<fnVars, opts, args, argi, src, sender, cat, lp, stop, sigVars,
                   sync, proc, mainpc, drawVars, timeVars>>

\* the sender closes the channel
SourceCloses ==
    /\ Running /\ rz.pc = "recv"
    /\ rz' = [pc |-> "done", f |-> NoFrame]
    /\ UNCHANGED <<fnVars, opts, args, argi, src, sender, cat, lp, stop, sigVars,
                   sync, proc, mainpc, drawVars, timeVars>>

InitLoop ==
    /\ opts \in [Animate : BOOLEAN, Repeat : Repeats, Delay : {0}]
    /\ args = <<>> /\ argi = 1 /\ src = <<>> /\ sender = <<>>
    /\ cat = [pc |-> "done", ci |-> 1, f |-> NoFrame]
    /\ rz = [pc |-> "recv", f |-> NoFrame]
    /\ lp = [pc |-> "collect", all |-> <<>>, n |-> 0, j |-> 1, numloop |-> 0]
    /\ mainpc = "select"
    /\ nsig = 0
    /\ InitDraw

NextLoop ==
    \/ SourceOffers
    \/ SourceCloses
    \/ LoopFramesCollect
    \/ LoopFramesSourceClosed
    \/ LoopFramesForward
    \/ LoopFramesReplay
    \/ WriterEncode
    \/ WriterFlush
    \/ WriterReturn
    \/ MainDefer
    \/ TimerFire

SpecLoop == InitLoop /\ [][NextLoop]_vars

\* ============================================================== quantizers
\* A color is what color.Color.RGBA() returns for it: four 16-bit channels.
\* An escape code is a token: ESC[0m is Clear, ESC[48;5;<n>m is Bg256(n) and
\* ESC[4<n>m is Bg8(n).
Bg256(n) == [t |-> "bg256", n |-> n]
Bg8(n) == [t |-> "bg8", n |-> n]

\* Go's integer division truncates toward zero
Quot(x, y) == IF x >= 0 THEN x \div y ELSE -((-x) \div y)

IsTransparentZeroOnly(c, threshold) == c.a = 0
\* IsTransparent: the alpha of the color is below the threshold
IsTransparent(c, threshold) == c.a < threshold

\* color.GrayModel.Convert(c).(color.Gray).Y:
\* (19595*r + 38470*g + 7471*b + 1<<15) >> 24, computed here on the high and
\* low bytes of the channels to stay within 32-bit integers
GrayY(c) ==
    LET A == 19595 * (c.r \div 256) + 38470 * (c.g \div 256) + 7471 * (c.b \div 256)
        B == 19595 * (c.r % 256) + 38470 * (c.g % 256) + 7471 * (c.b % 256) + 32768
    IN  (A + (B \div 256)) \div 65536

\* PaletteGray.ANSI, line 157: const begin = 0xe8
begin == 232

\* int(round(ratio * float64(gray))) with ratio = 24.0 / 255.0 and
\* round(x) = math.Floor(x + 0.5): floor((48*gray + 255) / 510)
GrayScaled(gray) == (48 * gray + 255) \div 510

\* PaletteGray.ANSI
PaletteGray_ANSI(c, threshold) ==
    IF IsTransparent(c, threshold) THEN Clear
    ELSE Bg256(GrayScaled(GrayY(c)) + begin)

\* color.RGBA.RGBA() of a reference color written without alpha: each 8-bit
\* channel v becomes v<<8 | v and the alpha is 0
RGB8(r8, g8, b8) == [r |-> 257 * r8, g |-> 257 * g8, b |-> 257 * b8, a |-> 0]

\* DefaultPalette8, indexed from 0 (Black) to 7 (Gray)
DefaultPalette8 ==
    [i \in 0..7 |->
        CASE i = 0 -> RGB8(0, 0, 0)
          [] i = 1 -> RGB8(191, 25, 25)
          [] i = 2 -> RGB8(25, 184, 25)
          [] i = 3 -> RGB8(188, 110, 25)
          [] i = 4 -> RGB8(25, 25, 184)
          [] i = 5 -> RGB8(186, 25, 186)
          [] i = 6 -> RGB8(25, 187, 187)
          [] i = 7 -> RGB8(178, 178, 178)]

sqDiffAbs(x, y) == IF x > y THEN x - y ELSE y - x
\* image/color sqDiff: ((x - y) * (x - y)) >> 2 on 16-bit channels
sqDiff(x, y) ==
    LET d == IF x > y THEN x - y ELSE y - x
        k == d \div 2
    IN  k * k + k * (d % 2)

\* the sum of the four sqDiff terms, as <<high, low>> digits in base 2^16
PaletteDist(c, v) ==
    LET t == <<sqDiff(c.r, v.r), sqDiff(c.g, v.g), sqDiff(c.b, v.b),
               sqDiff(c.a, v.a)>>
        hi == (t[1] \div 65536) + (t[2] \div 65536) + (t[3] \div 65536)
              + (t[4] \div 65536)
        lo == (t[1] % 65536) + (t[2] % 65536) + (t[3] % 65536) + (t[4] % 65536)
    IN  <<hi + (lo \div 65536), lo % 65536>>

DistLess(x, y) == x[1] < y[1] \/ (x[1] = y[1] /\ x[2] < y[2])

\* color.Palette.Index: the first entry at the least distance
PaletteIndex(p, c) ==
    CHOOSE i \in DOMAIN p :
        /\ \A j \in DOMAIN p : ~DistLess(PaletteDist(c, p[j]), PaletteDist(c, p[i]))
        /\ \A j \in DOMAIN p :
              j < i => DistLess(PaletteDist(c, p[i]), PaletteDist(c, p[j]))

\* Palette8.ANSI: the index of the entry color.Palette.Convert returns
Palette8_ANSI(c, threshold) ==
    IF IsTransparent(c, threshold) THEN Clear
    ELSE Bg8(PaletteIndex(DefaultPalette8, c))

q2c == [i \in 0..5 |-> CASE i = 0 -> 0 [] i = 1 -> 95 [] i = 2 -> 135
                         [] i = 3 -> 175 [] i = 4 -> 215 [] i = 5 -> 255]

\* colorScale256: v * 256 / (1<<16 - 1)
colorScale256(v) == (v * 256) \div 65535

colorTo6CubeEven(v) == v \div 52
\* colorTo6Cube, lines 269-277
colorTo6Cube(v) ==
    IF v < 48 THEN 0 ELSE IF v < 114 THEN 1 ELSE (v - 35) \div 40

colorDistSq(r1, g1, b1, r2, g2, b2) ==
    (r1 - r2) * (r1 - r2) + (g1 - g2) * (g1 - g2) + (b1 - b2) * (b1 - b2)

\* colorFindRGB: the palette index and whether the color is opaque
colorFindRGB(c, threshold) ==
    IF c.a < threshold THEN [val |-> 0, opaque |-> FALSE]
    ELSE
    LET r == colorScale256(c.r)
        g == colorScale256(c.g)
        b == colorScale256(c.b)
        qr == colorTo6Cube(r)
        qg == colorTo6Cube(g)
        qb == colorTo6Cube(b)
        cr == q2c[qr]
        cg == q2c[qg]
        cb == q2c[qb]
        cube == 16 + 36 * qr + 6 * qg + qb
        greyAvg == (r + g + b) \div 3
        greyIdx == IF greyAvg <= 238 THEN Quot(greyAvg - 3, 10) ELSE 23
        grey == 8 + 10 * greyIdx
    IN  IF cr = r /\ cg = g /\ cb = b THEN [val |-> cube, opaque |-> TRUE]
        ELSE IF colorDistSq(grey, grey, grey, r, g, b) < colorDistSq(cr, cg, cb, r, g, b)
             THEN [val |-> 232 + greyIdx, opaque |-> TRUE]
             ELSE [val |-> cube, opaque |-> TRUE]

\* Palette256.ANSI
Palette256_ANSI(c, threshold) ==
    LET f == colorFindRGB(c, threshold)
    IN  IF ~f.opaque THEN Clear ELSE Bg256(f.val)

\* palette256.Index(c): the table palette256 is the 256-color matching the
\* precise quantizer reproduces
palette256Index(c) == colorFindRGB(c, 0).val

\* Palette256Precise.ANSI
Palette256Precise_ANSI(c, threshold) ==
    IF IsTransparent(c, threshold) THEN Clear
    ELSE Bg256(palette256Index(c))

\* ansiPalettes, by the name the -color flag selects
PaletteNames == {"gray", "8", "256-fast", "256"}
ANSI(p, c, threshold) ==
    CASE p = "gray" -> PaletteGray_ANSI(c, threshold)
      [] p = "8" -> Palette8_ANSI(c, threshold)
      [] p = "256-fast" -> Palette256_ANSI(c, threshold)
      [] p = "256" -> Palette256Precise_ANSI(c, threshold)

\* the colors quantized: every gray level, and the combinations of the
\* channel values of the corner colors and of DefaultPalette8, each with
\* several alphas
Alphas == {0, 32767, 65534, 65535}
Channels8 == {0, 25, 110, 178, 184, 186, 187, 188, 191, 255}
Colors ==
    {[r |-> 257 * y, g |-> 257 * y, b |-> 257 * y, a |-> al] :
        y \in 0..255, al \in Alphas} \cup
    {[r |-> 257 * x, g |-> 257 * y, b |-> 257 * z, a |-> al] :
        x \in Channels8, y \in Channels8, z \in Channels8, al \in Alphas}

\* AlphaThreshold = uint32(alphamin * 0xffff) for -alphamin 0, 0.5 and 1.0
Thresholds == {0, 32767, 65535}

\* one call of p.ANSI(c), or of colorFindRGB(c), and of colorScale256 on each
\* channel of c
Quantize(p) ==
    /\ quant.pc = "call"
    /\ quant' = [quant EXCEPT !.pc = "done", !.p = p,
                   !.code = ANSI(p, quant.c, quant.threshold),
                   !.found = colorFindRGB(quant.c, quant.threshold),
                   !.scaled = [r |-> colorScale256(quant.c.r),
                               g |-> colorScale256(quant.c.g),
                               b |-> colorScale256(quant.c.b)]]
    /\ UNCHANGED <<pipeVars, enc, GIF, rend, shown, rect>>

\* the pipeline is not running while a pure function is followed
InitPipeIdle ==
    /\ opts = [Animate |-> FALSE, Repeat |-> 0, Delay |-> 0]
    /\ args = <<>> /\ argi = 1 /\ src = <<>> /\ sender = <<>>
    /\ cat = [pc |-> "done", ci |-> 1, f |-> NoFrame]
    /\ rz = [pc |-> "done", f |-> NoFrame]
    /\ lp = [pc |-> "done", all |-> <<>>, n |-> 0, j |-> 1, numloop |-> 0]
    /\ mainpc = "exited" /\ nsig = 0
    /\ stop = FALSE /\ sigq = 0 /\ notifying = TRUE /\ hpc = "range"
    /\ gotsignal = FALSE /\ intrDrawing = FALSE /\ sync = {} /\ proc = "running"
    /\ w = [nframe |-> 0, lastH |-> 0, f |-> NoFrame, delay |-> 0]
    /\ gate = [timer |-> FALSE, left |-> 0]
    /\ buf = <<>> /\ out = <<>> /\ recvd = <<>>
    /\ sinceRecv = 0 /\ sinceFlush = 0

InitQuantize ==
    /\ InitPipeIdle
    /\ \E c \in Colors, th \in Thresholds :
          quant = [pc |-> "call", c |-> c, threshold |-> th, p |-> "none",
                   code |-> Clear, found |-> [val |-> 0, opaque |-> FALSE],
                   scaled |-> [r |-> 0, g |-> 0, b |-> 0]]
    /\ enc = [pc |-> "none"] /\ GIF = [pc |-> "none"]
    /\ rend = [pc |-> "none"] /\ shown = <<>> /\ rect = [pc |-> "none"]

NextQuantize == \E p \in PaletteNames : Quantize(p)

SpecQuantize == InitQuantize /\ [][NextQuantize]_vars

\* ========================================================= writeANSIPixels
\* The text written to the frame buffer is a sequence of tokens: escape codes,
\* the space character Sp and the newline Nl.  A pad string is a sequence of
\* characters.
MaxX == 2       \* widest image encoded

Sp == [t |-> "sp", n |-> 0]
Nl == [t |-> "nl", n |-> 0]
NoCodeIsClear == [t |-> "clear", n |-> 0]
\* var lastcolor string: the empty string, which no palette returns
NoCode == [t |-> "none", n |-> 0]

IsCode(tok) == tok.t \in {"clear", "bg256", "bg8"}

WriteANSIIAlways(st, code) ==
    [text |-> Append(st.text, code), lastcolor |-> code]
\* writeansii, lines 684-692: the code is written unless it is the one written
\* last
WriteANSII(st, code) ==
    IF code # st.lastcolor
    THEN [text |-> Append(st.text, code), lastcolor |-> code]
    ELSE st

\* w.WriteString(s)
WriteString(st, s) == [st EXCEPT !.text = @ \o s]

\* lines 697-701: the pixels x..size.X of row y, each its code and a space
RECURSIVE WritePixelsFrom(_, _, _, _, _, _)
WritePixelsFrom(st, img, p, threshold, y, x) ==
    IF x > img.X THEN st
    ELSE WritePixelsFrom(
            WriteString(WriteANSII(st, ANSI(p, img.pix[y][x], threshold)), <<Sp>>),
            img, p, threshold, y, x + 1)

LineEndUnlatched(st) == WriteString(WriteString(st, <<Clear>>), <<Nl>>)
\* lines 703-704: writeansii(ANSIClear), then the newline
LineEnd(st) == WriteString(WriteANSII(st, Clear), <<Nl>>)

\* lines 695-705: the rows y..size.Y
RECURSIVE WriteRowsFrom(_, _, _, _, _, _)
WriteRowsFrom(st, img, p, threshold, pad, y) ==
    IF y > img.Y THEN st
    ELSE WriteRowsFrom(
            LineEnd(WriteString(
                WritePixelsFrom(WriteString(st, pad), img, p, threshold, y, 1),
                pad)),
            img, p, threshold, pad, y + 1)

\* writeANSIPixels: what one call appends to the frame buffer
writeANSIPixels(img, p, threshold, pad) ==
    WriteRowsFrom([text |-> <<>>, lastcolor |-> NoCode], img, p, threshold, pad, 1).text

\* the images encoded: up to MaxX columns and two rows of transparent, black,
\* nearly black and red pixels
ImageRows == 0..2
PixelColors ==
    {[r |-> 0, g |-> 0, b |-> 0, a |-> 0],
     [r |-> 0, g |-> 0, b |-> 0, a |-> 65535],
     [r |-> 257 * 5, g |-> 257 * 5, b |-> 257 * 5, a |-> 65535],
     [r |-> 257 * 191, g |-> 257 * 25, b |-> 257 * 25, a |-> 65535]}
Images ==
    UNION {{[X |-> sx, Y |-> sy, pix |-> px] : px \in [1..sy -> [1..sx -> PixelColors]]} :
              sx \in 0..MaxX, sy \in ImageRows}
\* -pad: the empty string and the default, one space
Pads == {<<>>, <<Sp>>}

\* one call of writeANSIPixels
Encode ==
    /\ enc.pc = "call"
    /\ enc' = [enc EXCEPT !.pc = "done",
                 !.text = writeANSIPixels(enc.img, enc.p, enc.threshold, enc.pad)]
    /\ UNCHANGED <<pipeVars, quant, GIF, rend, shown, rect>>

InitEncode ==
    /\ InitPipeIdle
    /\ \E img \in Images, p \in PaletteNames, pad \in Pads :
          enc = [pc |-> "call", img |-> img, p |-> p, threshold |-> 65535,
                 pad |-> pad, text |-> <<>>]
    /\ quant = [pc |-> "none"] /\ GIF = [pc |-> "none"]
    /\ rend = [pc |-> "none"] /\ shown = <<>> /\ rect = [pc |-> "none"]

NextEncode == Encode

SpecEncode == InitEncode /\ [][NextEncode]_vars

\* ============================================================= gifrenderer
\* A decoded GIF: Config.Width (the canvas is one pixel high, so a rectangle
\* is its range of columns Min..Max-1), the number of colors of the global
\* color table Config.ColorModel (0: the GIF has none), BackgroundIndex, and
\* the layers
\* Image[k] with their rectangle, color indexes, HasTransparent, Transparent
\* and Disposal (k = i + 1 for layer i).  "none" stands for both the
\* unspecified disposal and DisposalNone, which renderFrame treats alike.
MaxLayers == 2      \* most layers of a GIF

\* calls of RenderNext followed, and frames displayed
MaxCalls == MaxLayers + 2
MaxShown == MaxLayers + 1

Transparent == [r |-> 0, g |-> 0, b |-> 0, a |-> 0]

\* the color table of the GIF, which every layer uses: red and black
GIFPalette ==
    [i \in 0..1 |-> IF i = 0 THEN [r |-> 65535, g |-> 0, b |-> 0, a |-> 65535]
                    ELSE [r |-> 0, g |-> 0, b |-> 0, a |-> 65535]]

Widths == {1, 2}
Disposals == {"none", "background", "previous"}

Rects(width) ==
    {rc \in [Min : 0..(width - 1), Max : 1..width] : rc.Min < rc.Max}
Layers(width) ==
    UNION {[Min : {rc.Min}, Max : {rc.Max}, pix : [rc.Min..(rc.Max - 1) -> 0..1],
            HasTransparent : BOOLEAN, Transparent : {0}, Disposal : Disposals] :
              rc \in Rects(width)}

GIFs ==
    UNION {[Width : {wd}, GlobalColors : {0, 2}, BackgroundIndex : 0..1,
            Image : [1..n -> Layers(wd)]] :
              wd \in Widths, n \in 0..MaxLayers}

\* renderFrame, line 116: image.Rect(0, 0, Config.Width, Config.Height)
Bounds(g) == 0..(g.Width - 1)

\* draw.Draw(dst, bounds, image.NewUniform(c), bounds.Min, draw.Src)
Fill(cv, c) == [x \in DOMAIN cv |-> c]

\* Config.ColorModel.(color.Palette)[BackgroundIndex]
Background(g) == GIFPalette[g.BackgroundIndex]

\* r.Draw(bounds): a new image of these bounds, every pixel transparent
NewCanvas(b) == [x \in b |-> Transparent]

DisposedKeep(g, frame, i) ==
    IF i = 0
    THEN IF g.Image[Len(g.Image)].Disposal = "background"
         THEN Fill(NewCanvas(Bounds(g)), Background(g))
         ELSE Fill(NewCanvas(Bounds(g)), Transparent)
    ELSE frame
DisposedClear(g, frame, i) ==
    IF i = 0
    THEN IF g.Image[Len(g.Image)].Disposal = "background"
         THEN Fill(NewCanvas(Bounds(g)), Background(g))
         ELSE Fill(NewCanvas(Bounds(g)), Transparent)
    ELSE IF g.Image[i].Disposal = "background" THEN Fill(frame, Background(g))
         ELSE Fill(frame, Transparent)
\* renderFrame, lines 117-138: the canvas before layer i is drawn.  For layer
\* 0 it is created and filled according to the disposal of the last layer;
\* for a later layer the disposal of the layer before it is applied.
Disposed(g, frame, i) ==
    IF i = 0
    THEN IF g.Image[Len(g.Image)].Disposal = "background"
         THEN Fill(NewCanvas(Bounds(g)), Background(g))
         ELSE Fill(NewCanvas(Bounds(g)), Transparent)
    ELSE IF g.Image[i].Disposal = "background" THEN Fill(frame, Background(g))
         ELSE IF g.Image[i].Disposal = "previous" THEN Fill(frame, Transparent)
         ELSE frame

PaintsIgnoringFlag(m, x) == m.pix[x] # m.Transparent
\* lines 146-148: the pixel is skipped when it carries the transparent index
\* the layer declares
Paints(m, x) == ~(m.HasTransparent /\ m.pix[x] = m.Transparent)

DrawLayerUnder(cv, m) ==
    [x \in DOMAIN cv |->
        IF x \in m.Min..(m.Max - 1) /\ Paints(m, x) /\ cv[x] = Transparent
        THEN GIFPalette[m.pix[x]] ELSE cv[x]]
\* lines 143-151: the layer is drawn over the canvas; Set leaves alone a
\* point outside the bounds of the canvas
DrawLayer(cv, m) ==
    [x \in DOMAIN cv |->
        IF x \in m.Min..(m.Max - 1) /\ Paints(m, x)
        THEN GIFPalette[m.pix[x]] ELSE cv[x]]

\* lines 153-154: a new image onto which the canvas is drawn with draw.Over
FrameCopy(g, frame) ==
    [x \in Bounds(g) |-> IF x \in DOMAIN frame THEN frame[x] ELSE Transparent]

\* The images r.Draw has made are the objects objs[1], objs[2], ...; r.frame
\* and the entries of r.Frames refer to them by their index.
SnapshotView(objs, cv, g) == [objs |-> objs, id |-> cv]
\* lines 153-155: framecp is a new image, the canvas is drawn onto it and it
\* is what is appended to r.Frames
Snapshot(objs, cv, g) ==
    [objs |-> Append(objs, FrameCopy(g, objs[cv])), id |-> Len(objs) + 1]

NewCanvasNeededAlways(i) == TRUE
\* lines 117-119: r.frame = r.Draw(bounds) for layer 0 only
NewCanvasNeeded(i) == i = 0

\* lines 118 and 128: the disposal renderFrame(i) looks at
DisposalBefore(g, i) ==
    IF i = 0 THEN g.Image[Len(g.Image)].Disposal ELSE g.Image[i].Disposal

\* lines 122 and 131: indexing the global color table with BackgroundIndex is
\* a run-time panic when the table has no such entry
renderFaults(g, i) ==
    DisposalBefore(g, i) = "background" /\ g.BackgroundIndex >= g.GlobalColors

\* renderFrame(i)
renderFrame(rd, g, i) ==
    LET objs0 == IF NewCanvasNeeded(i)
                 THEN Append(rd.objs, NewCanvas(Bounds(g))) ELSE rd.objs
        cv == IF NewCanvasNeeded(i) THEN Len(objs0) ELSE rd.canvas
        cleared == Disposed(g, rd.frame, i)
        drawn == DrawLayer(cleared, g.Image[i + 1])
        snap == Snapshot([objs0 EXCEPT ![cv] = drawn], cv, g)
        ids == Append(rd.ids, snap.id)
    IN  [rd EXCEPT !.frame = drawn,
                   !.objs = snap.objs,
                   !.canvas = cv,
                   !.ids = ids,
                   !.Frames = [k \in 1..Len(ids) |-> snap.objs[ids[k]]],
                   !.appended = Append(@, snap.objs[snap.id]),
                   !.rendered = Append(@, i),
                   !.before = Append(@, cleared)]

RenderNeededAlways(nframes, i) == TRUE
\* RenderNext, line 107: len(r.Frames) <= i
RenderNeeded(nframes, i) == nframes <= i

\* one call of RenderNext; with no layers the remainder by len(r.GIF.Image)
\* is a division by zero, a run-time panic, and so is a background color the
\* global color table does not hold
RenderNext ==
    /\ rend.pc = "ready" /\ rend.calls < MaxCalls
    /\ IF Len(GIF.Image) = 0
       THEN rend' = [rend EXCEPT !.pc = "panic", !.calls = @ + 1]
       ELSE LET i == (rend.index + 1) % Len(GIF.Image)
                rd == [rend EXCEPT !.index = i, !.calls = @ + 1]
            IN  IF RenderNeeded(Len(rend.Frames), i)
                THEN IF renderFaults(GIF, i)
                     THEN rend' = [rd EXCEPT !.pc = "panic"]
                     ELSE rend' = [renderFrame(rd, GIF, i) EXCEPT !.ok = TRUE]
                ELSE rend' = [rd EXCEPT !.ok = FALSE, !.done = TRUE]
    /\ UNCHANGED <<pipeVars, quant, enc, GIF, shown, rect>>

\* decodeFramesGIF, lines 816-828, and LoopFrames, lines 541-549: once
\* RenderNext has returned false the frames are sent in the order of
\* renderer.Frames, and LoopFrames replays them in that order again
ShowFrame ==
    /\ rend.pc = "ready" /\ rend.done
    /\ rend.Frames # <<>> /\ Len(shown) < MaxShown
    /\ shown' = Append(shown, rend.Frames[(Len(shown) % Len(rend.Frames)) + 1])
    /\ UNCHANGED <<pipeVars, quant, enc, GIF, rend, rect>>

\* newGIFRenderer
InitRender ==
    /\ InitPipeIdle
    /\ GIF \in GIFs
    /\ rend = [pc |-> "ready", index |-> -1, Frames |-> <<>>, frame |-> <<>>,
               objs |-> <<>>, canvas |-> 0, ids |-> <<>>, appended |-> <<>>,
               rendered |-> <<>>, before |-> <<>>, ok |-> TRUE, done |-> FALSE,
               calls |-> 0]
    /\ shown = <<>> /\ rect = [pc |-> "none"]
    /\ quant = [pc |-> "none"] /\ enc = [pc |-> "none"]

NextRender == RenderNext \/ ShowFrame

SpecRender == InitRender /\ [][NextRender]_vars

\* ================================================================ sizeRect
\* The float64 values of sizeRect are ratios of small integers; they are kept
\* as exact fractions [n, d], d = 0 standing for +Inf (a division by zero).
MaxSide == 4        \* largest image side, -width and -height explored

Rat(n, d) == [n |-> n, d |-> d]
RatMul(x, y) == [n |-> x.n * y.n, d |-> x.d * y.d]
RatDiv(x, y) == [n |-> x.n * y.d, d |-> x.d * y.n]
RatGt(x, y) == x.n * y.d > y.n * x.d

\* round: math.Floor(x + 0.5)
round(x) == (2 * x.n + x.d) \div (2 * x.d)

\* int(f) of a float64 that no int holds is implementation-dependent
OutOfRange == {-1073741824, 0, 1073741824}
\* int(round(x))
IntRound(x) == IF x.d = 0 THEN OutOfRange ELSE {round(x)}

\* sizeNormal: X becomes round(Y * (X / Y) / fontAspect)
sizeNormal(size, fontAspect) ==
    LET aspect == Rat(size.X, size.Y)
        wd == RatDiv(RatMul(Rat(size.Y, 1), aspect), fontAspect)
    IN  [X |-> round(wd), Y |-> size.Y]

sizeWidthTimes(sizeNorm, width) ==
    LET aspect == Rat(sizeNorm.X, sizeNorm.Y)
    IN  {[X |-> width, Y |-> y] : y \in IntRound(RatMul(Rat(width, 1), aspect))}
\* _sizeWidth: X = width and Y = int(round(width / aspect))
sizeWidth(sizeNorm, width) ==
    LET aspect == Rat(sizeNorm.X, sizeNorm.Y)
    IN  {[X |-> width, Y |-> y] : y \in IntRound(RatDiv(Rat(width, 1), aspect))}

\* _sizeHeight: Y = height and X = int(round(height * aspect))
sizeHeight(sizeNorm, height) ==
    LET aspect == Rat(sizeNorm.X, sizeNorm.Y)
    IN  {[X |-> x, Y |-> height] : x \in IntRound(RatMul(Rat(height, 1), aspect))}

\* sizeRect: the points it can return
sizeRect(size, width, height, fontAspect) ==
    LET norm == sizeNormal(size, fontAspect) IN
    IF width <= 0 /\ height <= 0 THEN {norm}
    ELSE IF width <= 0 THEN sizeHeight(norm, height)
    ELSE IF height <= 0 THEN sizeWidth(norm, width)
    ELSE IF RatGt(Rat(norm.X, norm.Y), Rat(width, height))
         THEN sizeWidth(norm, width)
         ELSE sizeHeight(norm, height)

\* image sizes, and the values of -width, -height (0: not given) and
\* -fontaspect (1/2 by default)
Sizes == [X : 1..MaxSide, Y : 1..MaxSide]
Sides == 0..MaxSide
FontAspects == {Rat(1, 2), Rat(1, 1), Rat(3, 2), Rat(3, 1)}

\* one call of sizeRect
SizeRect ==
    /\ rect.pc = "call"
    /\ \E r \in sizeRect(rect.size, rect.width, rect.height, rect.fontAspect) :
          rect' = [rect EXCEPT !.pc = "done", !.res = r]
    /\ UNCHANGED <<pipeVars, quant, enc, GIF, rend, shown>>

InitSize ==
    /\ InitPipeIdle
    /\ \E sz \in Sizes, wd \in Sides, ht \in Sides, fa \in FontAspects :
          rect = [pc |-> "call", size |-> sz, width |-> wd, height |-> ht,
                  fontAspect |-> fa, res |-> [X |-> 0, Y |-> 0]]
    /\ quant = [pc |-> "none"] /\ enc = [pc |-> "none"]
    /\ GIF = [pc |-> "none"] /\ rend = [pc |-> "none"] /\ shown = <<>>

NextSize == SizeRect

SpecSize == InitSize /\ [][NextSize]_vars

\* ==================================================================== claims
Ids(fs) == [k \in 1..Len(fs) |-> fs[k].id]

\* the first count frames of an endless repetition of the sequence all
Cycle(all, count) == [k \in 1..count |-> all[((k - 1) % Len(all)) + 1].id]

\* C1: with no cancellation, when LoopFrames has collected N >= 1 frames from
\* a source that then closed and Repeat is R >= 0, LoopFrames has emitted
\* exactly N*(R+1) frames when it closes its output, the k-th being source
\* frame k mod N, whatever loop count the source frames carry.
C1_LoopEmitsEveryPass ==
    (lp.pc = "done" /\ ~stop /\ opts.Repeat >= 0 /\ Len(lp.all) >= 1)
        => Ids(recvd) = Cycle(lp.all, Len(lp.all) * (opts.Repeat + 1))

C1_Witness ==
    /\ lp.pc = "done" /\ ~stop
    /\ opts.Repeat = MaxRepeat /\ Len(lp.all) = MaxFrames
    /\ args[1].loop # opts.Repeat
    /\ Len(recvd) = MaxFrames * (MaxRepeat + 1)

\* a stage is blocked at a send on a channel whose only receiver has returned
StageBlockedForever ==
    \/ rz.pc = "send" /\ lp.pc = "done"
    \/ cat.pc = "send" /\ rz.pc = "done"

\* C2: after the stop channel is closed every stage goroutine eventually
\* stops and closes its output channel, so no state is reached in which a
\* stage is blocked for ever on a channel send.
C2_NoStageBlockedForever == (stop /\ Running) => ~StageBlockedForever

\* the argument a frame id belongs to
ArgOf(id) == CHOOSE a \in DOMAIN args : Offset(a) <= id /\ id < Offset(a + 1)

FirstPass == MinOf(Len(recvd), Len(lp.all))

\* C3 as stated: the frames writeANSIFrames receives during the first pass
\* are the source frames in source order, none lost, duplicated or reordered:
\* the k-th frame received is the k-th source frame.
C3_FirstPassIsSource ==
    \A k \in 1..FirstPass : recvd[k].id = k - 1

\* C3, amended: the frames writeANSIFrames receives during the first pass are
\* source frames in source order, none duplicated or reordered, every frame of
\* one argument before every frame of the next; while the stop channel is open
\* none is lost either, and the first pass delivers all of them.
C3_FirstPassInSourceOrder ==
    /\ \A k \in 1..FirstPass : recvd[k].id \in 0..(Total - 1)
    /\ \A k, m \in 1..FirstPass :
          k < m => /\ recvd[k].id < recvd[m].id
                   /\ ArgOf(recvd[k].id) <= ArgOf(recvd[m].id)
    /\ ~stop => \A k \in 1..FirstPass : recvd[k].id = k - 1
    /\ (~stop /\ lp.pc \in {"replay", "done"})
          => (Len(lp.all) = Total /\ Len(recvd) >= Total)

C3_Witness ==
    /\ ~stop /\ lp.pc \in {"replay", "done"}
    /\ Len(args) = 2 /\ Total = MaxFrames
    /\ Len(recvd) >= Total
    /\ ArgOf(recvd[1].id) = 1 /\ ArgOf(recvd[2].id) = 2

\* C4: with Repeat < 0 and a source of N >= 1 frames LoopFrames never closes
\* its output while the stop channel is open; after the first pass it stays
\* at the send of the next buffered frame, and what it has emitted is the
\* cyclic order 0..N-1.
C4_IndefiniteLoopNeverCloses ==
    (opts.Repeat < 0 /\ ~stop /\ Len(lp.all) >= 1)
        => /\ lp.pc \in {"collect", "fwd", "replay"}
           /\ lp.pc = "replay" => Ids(recvd) = Cycle(lp.all, Len(recvd))

C4_Witness ==
    /\ opts.Repeat < 0 /\ ~stop /\ lp.pc = "replay"
    /\ Len(lp.all) = MaxFrames
    /\ lp.n = MaxPass /\ Len(recvd) = MaxFrames * (MaxPass + 1)

Last(q) == q[Len(q)]

\* C5: if an interrupt arrives while writeANSIFrames is drawing in animated
\* mode, ESC[0m is written to the output after the last frame bytes before
\* the process exits; in particular it is the last thing written when main
\* returns.
C5_ResetWrittenOnInterrupt ==
    (intrDrawing /\ mainpc = "exited") => (out # <<>> /\ Last(out) = Clear)

\* the delay of the current frame is being enforced
Delaying == opts.Animate /\ w.nframe > 0 /\ mainpc \in {"encode", "gate"}

\* C6 as stated: the delay before frame N > 0 runs from the start of the flush
\* of frame N-1: what is left of it is the delay less the time since then.
C6_DelayFromPreviousFlush ==
    Delaying => (gate.timer /\ gate.left = Max0(w.delay - sinceFlush))

\* C6, amended: the delay before frame N > 0 runs from the moment frame N is
\* received, which is after the flush of frame N-1 and before frame N is
\* encoded: the time spent encoding frame N counts towards the delay, the time
\* spent waiting for frame N does not.
C6_DelayFromReceipt ==
    Delaying => (gate.timer /\ gate.left = Max0(w.delay - sinceRecv))

C6_Witness ==
    /\ Delaying /\ mainpc = "gate"
    /\ sinceRecv > 0 /\ sinceFlush > sinceRecv /\ gate.left > 0

\* C7: in animated mode the delay applied before frame N > 0 is the forced
\* delay opts.Delay when that is nonzero, otherwise the frame's own Delay when
\* that is nonzero, otherwise DelayDefault (33 ms).
C7_DelayPrecedence ==
    (Delaying /\ sinceRecv = 0) =>
        /\ gate.timer
        /\ opts.Delay # 0 => gate.left = opts.Delay
        /\ (opts.Delay = 0 /\ w.f.Delay # 0) => gate.left = w.f.Delay
        /\ (opts.Delay = 0 /\ w.f.Delay = 0) => gate.left = 33

C7_Witness ==
    /\ Delaying /\ sinceRecv = 0
    /\ opts.Delay # 0 /\ w.f.Delay # 0 /\ opts.Delay # w.f.Delay

\* C8: the very first frame writeANSIFrames receives is flushed without
\* waiting on a delay timer, whatever Delay it carries and whatever forced
\* delay is configured: frameGate is still the closed channel.
C8_FirstFrameNotDelayed ==
    (w.nframe = 0 /\ mainpc \in {"encode", "gate"}) => (~gate.timer /\ GateReady)

C8_Witness ==
    /\ w.nframe = 0 /\ mainpc = "gate"
    /\ opts.Animate /\ opts.Delay # 0 /\ w.f.Delay # 0

\* the frame received before the current one
PrevH == IF Len(recvd) >= 2 THEN recvd[Len(recvd) - 1].h ELSE 0
Ups(q) == {k \in 1..Len(q) : q[k].t = "up"}

\* C9 as stated: in animated mode every frame after the first is preceded by
\* exactly one ESC[<n>A with n the number of lines of the frame before it, the
\* first frame by none, and in non-animated mode there is none at all.
C9_CursorUpBeforeEveryFrame ==
    mainpc = "gate" =>
        buf = (IF opts.Animate /\ w.nframe > 0
               THEN <<[t |-> "up", n |-> PrevH]>> ELSE <<>>) \o Pixels(w.f)

\* C9, amended: in animated mode every frame after the first whose
\* predecessor has at least one line is preceded by exactly one ESC[<n>A with
\* n the number of lines of the frame flushed just before it; the first frame
\* and a frame whose predecessor has no lines are preceded by none, and in
\* non-animated mode no cursor-up sequence is ever emitted.
C9_CursorUpAfterNonEmptyFrame ==
    /\ mainpc = "gate" =>
        buf = (IF opts.Animate /\ w.nframe > 0 /\ PrevH > 0
               THEN <<[t |-> "up", n |-> PrevH]>> ELSE <<>>) \o Pixels(w.f)
    /\ ~opts.Animate => (Ups(buf) = {} /\ Ups(out) = {})

C9_Witness ==
    /\ mainpc = "gate" /\ opts.Animate /\ w.nframe > 0
    /\ PrevH = 2 /\ w.f.h = 1
    /\ buf[1] = [t |-> "up", n |-> 2]

\* C10 as stated: after a flush, failed or not, the buffer is empty.
C10_BufferEmptyAfterFlush ==
    mainpc \in {"select", "fatal"} => buf = <<>>

\* C10, amended: a flush either transmits the whole buffer to the output,
\* after which the buffer is empty, or fails with an I/O error after writing
\* some prefix of the buffer; after a failed flush the buffer still holds all
\* it held (it is not reset).
C10_FlushAllOrError ==
    [][(mainpc = "gate" /\ mainpc' # "gate") =>
          \/ mainpc' = "select" /\ out' = out \o buf /\ buf' = <<>>
          \/ /\ mainpc' = "fatal" /\ proc' = "exit1"
             /\ buf' = buf /\ buf # <<>>
             /\ \E m \in 0..Len(buf) : out' = out \o SubSeq(buf, 1, m)]_vars

C10_Witness ==
    mainpc = "fatal" /\ Len(buf) = 2 /\ out # <<>> /\ Last(out) = buf[1]

\* C19: for every color whose alpha is below AlphaThreshold every quantizer
\* (PaletteGray, Palette8, Palette256, Palette256Precise, colorFindRGB)
\* returns the transparent marker (ESC[0m, respectively opaque = false),
\* whatever the RGB values are.
C19_TransparentBelowThreshold ==
    (quant.pc = "done" /\ quant.c.a < quant.threshold) =>
        (quant.code = Clear /\ ~quant.found.opaque)

C19_Witness ==
    /\ quant.pc = "done" /\ quant.p = "8"
    /\ quant.c.a = 65534 /\ quant.threshold = 65535 /\ quant.c.r = 257 * 191
    /\ quant.code = Clear

\* C20: for every opaque color PaletteGray.ANSI scales the 8-bit luminance
\* linearly from 0..255 to a level in 0..23 and returns ESC[48;5;<n>m with n
\* in the grayscale block 232..255.
C20_GrayInBlock ==
    (quant.pc = "done" /\ quant.p = "gray"
        /\ ~IsTransparent(quant.c, quant.threshold)) =>
        /\ quant.code.t = "bg256"
        /\ quant.code.n \in 232..255

\* the escape codes of a text, in the order written
CodesOf(text) == SelectSeq(text, IsCode)

\* the code written last among the first k - 1 tokens of the text
LastCodeBefore(text, k) ==
    LET cs == CodesOf(SubSeq(text, 1, k - 1))
    IN  IF cs = <<>> THEN NoCode ELSE cs[Len(cs)]

\* the position of the n-th token tok at or after position from (0: none)
RECURSIVE NthPos(_, _, _, _)
NthPos(text, tok, n, from) ==
    IF from > Len(text) THEN 0
    ELSE IF text[from] = tok
         THEN IF n = 1 THEN from ELSE NthPos(text, tok, n - 1, from + 1)
         ELSE NthPos(text, tok, n, from + 1)

Count(text, tok) == Cardinality({k \in 1..Len(text) : text[k] = tok})

\* C11 as stated: every line written by writeANSIPixels ends with a single
\* reset code ESC[0m immediately followed by the newline.
C11_LineEndsWithReset ==
    enc.pc = "done" =>
        \A k \in 1..Len(enc.text) :
            enc.text[k] = Nl =>
                /\ k >= 2 /\ enc.text[k - 1] = Clear
                /\ k >= 3 => enc.text[k - 2] # Clear

\* C11, amended: writeANSIPixels writes one line for each row of the image and
\* ends each line with a single reset code ESC[0m immediately followed by the
\* newline, except when the code most recently written in the frame is already
\* ESC[0m (the last pixel of the row is transparent, or the row has no pixels
\* and is not the first): then no reset code is written at the end of the
\* line.
C11_LineEndsWithLatchedReset ==
    enc.pc = "done" =>
        /\ Count(enc.text, Nl) = enc.img.Y
        /\ \A k \in 1..Len(enc.text) :
              enc.text[k] = Nl =>
                  IF LastCodeBefore(enc.text, k - 1) = Clear
                  THEN k = 1 \/ enc.text[k - 1] # Clear
                  ELSE /\ k >= 2 /\ enc.text[k - 1] = Clear
                       /\ k >= 3 => enc.text[k - 2] # Clear

C11_Witness ==
    /\ enc.pc = "done" /\ enc.img.X = 2 /\ enc.img.Y = 2
    /\ enc.img.pix[1][2].a = 0 /\ enc.img.pix[2][2].a = 65535
    /\ enc.text[Len(enc.text) - 1] = Clear
    /\ enc.text[NthPos(enc.text, Nl, 1, 1) - 1] # Clear

\* the position in the text of the space of pixel x of row y: the space after
\* those of the left pad of that row
SpaceOf(e, y, x) ==
    NthPos(e.text, Sp, Len(e.pad) + x,
           IF y = 1 THEN 1 ELSE NthPos(e.text, Nl, y - 1, 1) + 1)

\* C12: within one frame a color escape code is written for a pixel exactly
\* when it differs from the code written last in that frame, so no two codes
\* written one after the other are identical, and every pixel contributes
\* exactly one space character.
C12_CodeWrittenWhenChanged ==
    enc.pc = "done" =>
        /\ \A i \in 1..(Len(CodesOf(enc.text)) - 1) :
              CodesOf(enc.text)[i] # CodesOf(enc.text)[i + 1]
        /\ Count(enc.text, Sp) = enc.img.Y * (enc.img.X + 2 * Len(enc.pad))
        /\ \A y \in 1..enc.img.Y, x \in 1..enc.img.X :
              LET pos == SpaceOf(enc, y, x)
                  code == ANSI(enc.p, enc.img.pix[y][x], enc.threshold)
                  written == pos >= 2 /\ IsCode(enc.text[pos - 1])
              IN  /\ pos > 0
                  /\ written <=> (code # LastCodeBefore(enc.text, pos - 1))
                  /\ written => enc.text[pos - 1] = code

C12_Witness ==
    /\ enc.pc = "done" /\ enc.img.X = 2 /\ enc.img.Y = 2 /\ enc.p = "gray"
    /\ enc.pad = <<Sp>>
    /\ enc.img.pix[1][1] # enc.img.pix[1][2]
    /\ ANSI(enc.p, enc.img.pix[1][1], enc.threshold)
         = ANSI(enc.p, enc.img.pix[1][2], enc.threshold)
    /\ ~IsTransparent(enc.img.pix[1][1], enc.threshold)
    /\ enc.text[3] = Sp /\ enc.text[4] = Sp

\* the settings main's flags default to: -repeat -1, no -animate, no -delay
DefaultOpts == [Animate |-> FALSE, Repeat |-> -1, Delay |-> 0]

\* C13: a single 1x1 opaque red PNG rendered with default settings produces
\* exactly one output line (one escape code, the spaces, a reset code and a
\* newline), after which the program terminates: no more than that one line
\* is ever written.
C13_SinglePNGOneLine ==
    (opts = DefaultOpts /\ args = <<[kind |-> "img", n |-> 1, loop |-> 0, h |-> 1]>>) =>
        Len(out) <= 1

NLayers == Len(GIF.Image)

\* C14: for a GIF of N >= 1 layers, once RenderNext has returned false Frames
\* holds exactly N bitmaps, Frames[i] being the composite rendered for layer i
\* (layer order, none skipped, none rendered twice), and every further call
\* of RenderNext returns false and adds no frame.
C14_OneFramePerLayer ==
    (NLayers >= 1 /\ rend.pc = "ready") =>
        /\ Len(rend.Frames) = Len(rend.rendered)
        /\ \A k \in 1..Len(rend.rendered) : k <= NLayers /\ rend.rendered[k] = k - 1
        /\ rend.done => (Len(rend.Frames) = NLayers /\ ~rend.ok)

C14_Witness ==
    /\ NLayers = 2 /\ rend.done /\ rend.calls = 4 /\ ~rend.ok
    /\ Len(rend.Frames) = 2

\* C15: for every layer i > 0 whose preceding layer i-1 has disposal Previous,
\* the canvas onto which layer i is drawn equals the canvas as it was just
\* before layer i-1 was drawn.
C15_PreviousRestoresCanvas ==
    rend.pc = "ready" =>
        \A i \in 1..(Len(rend.before) - 1) :
            GIF.Image[i].Disposal = "previous" =>
                rend.before[i + 1] = rend.before[i]

\* the bitmap of a layer that fills the canvas and has no transparent pixel
LayerBitmap(m) == [x \in m.Min..(m.Max - 1) |-> GIFPalette[m.pix[x]]]

RoundTripGIF ==
    /\ NLayers = 2
    /\ GIF.Image[1].Min = 0 /\ GIF.Image[1].Max = GIF.Width
    /\ \A x \in DOMAIN GIF.Image[1].pix :
          ~(GIF.Image[1].HasTransparent
              /\ GIF.Image[1].pix[x] = GIF.Image[1].Transparent)
    /\ GIF.Image[2].Disposal = "previous"
    /\ GIF.Image[2].HasTransparent
    /\ \A x \in DOMAIN GIF.Image[2].pix :
          GIF.Image[2].pix[x] = GIF.Image[2].Transparent

\* C16: for a 2-layer GIF in which layer 0 is fully opaque and fills the
\* canvas and layer 1 has disposal Previous and only a transparent
\* sub-rectangle, the frame shown after layer 1 on loop wrap (frame 2) is
\* pixel for pixel the bitmap of layer 0.
C16_WrapShowsLayer0 ==
    (rend.pc = "ready" /\ RoundTripGIF /\ Len(shown) >= 3) =>
        shown[3] = LayerBitmap(GIF.Image[1])

C16_Witness ==
    /\ rend.pc = "ready" /\ RoundTripGIF /\ Len(shown) = 3
    /\ GIF.Width = 2 /\ GIF.Image[1].pix[0] # GIF.Image[1].pix[1]
    /\ ~GIF.Image[1].HasTransparent
    /\ GIF.Image[2].Min = 1 /\ GIF.Image[2].Max = 2

\* C17: compositing a GIF that has zero layers is a no-op that yields zero
\* frames: RenderNext returns without a run-time fault and leaves Frames
\* empty.
C17_ZeroLayersNoOp ==
    NLayers = 0 => (rend.pc = "ready" /\ rend.Frames = <<>>)

\* the union bounding box of the rectangles of all the layers
UnionBounds ==
    LET ks == {k \in 1..NLayers : GIF.Image[k].Min < GIF.Image[k].Max}
        lo == CHOOSE v \in {GIF.Image[k].Min : k \in ks} :
                  \A k \in ks : v <= GIF.Image[k].Min
        hi == CHOOSE v \in {GIF.Image[k].Max : k \in ks} :
                  \A k \in ks : v >= GIF.Image[k].Max
    IN  IF ks = {} THEN {} ELSE lo..(hi - 1)

\* C18: the canvas, and so every composited frame of one GIF, has bounds equal
\* to the union bounding box of all the GIF's layer rectangles, the same for
\* every frame.
C18_BoundsAreUnionOfLayers ==
    rend.pc = "ready" =>
        \A k \in 1..Len(rend.Frames) : DOMAIN rend.Frames[k] = UnionBounds

\* C21: colorFindRGB maps the opaque corner colors (0,0,0), (255,255,255) and
\* (255,0,0), given as 8-bit channels expanded to 16 bits, to the palette
\* indices 16, 231 and 196.
Corner(r8, g8, b8) ==
    /\ quant.c.r = 257 * r8 /\ quant.c.g = 257 * g8 /\ quant.c.b = 257 * b8
    /\ quant.c.a = 65535
C21_CornerColors ==
    quant.pc = "done" =>
        /\ Corner(0, 0, 0) => quant.found = [val |-> 16, opaque |-> TRUE]
        /\ Corner(255, 255, 255) => quant.found = [val |-> 231, opaque |-> TRUE]
        /\ Corner(255, 0, 0) => quant.found = [val |-> 196, opaque |-> TRUE]

C21_Witness ==
    /\ quant.pc = "done" /\ Corner(255, 255, 255) /\ quant.threshold = 65535
    /\ quant.found.val = 231

\* C22: for every opaque color Palette8.ANSI returns ESC[4<i>m where i is the
\* index of the reference color at the least Euclidean RGB distance, the
\* lowest such index on ties; a pixel equal to a reference color maps to that
\* entry's own index.
Euclid8(c, i) ==
    LET v == DefaultPalette8[i]
        dr == (c.r \div 257) - (v.r \div 257)
        dg == (c.g \div 257) - (v.g \div 257)
        db == (c.b \div 257) - (v.b \div 257)
    IN  dr * dr + dg * dg + db * db
SameRGB(c, v) == c.r = v.r /\ c.g = v.g /\ c.b = v.b
C23_FitsBox ==
    (rect.pc = "done" /\ rect.width > 0 /\ rect.height > 0) =>
        /\ rect.res.X <= rect.width
        /\ rect.res.Y <= rect.height
        /\ rect.res.X = rect.width \/ rect.res.Y = rect.height

C23_Witness ==
    /\ rect.pc = "done" /\ rect.size = [X |-> 2, Y |-> 4]
    /\ rect.fontAspect = Rat(1, 2) /\ rect.width = 3 /\ rect.height = 2
    /\ rect.res = [X |-> 2, Y |-> 2]

\* C24 (as stated): when a flush fails the cancellation signal is raised, so
\* that every upstream stage stops.
C24_FlushErrorRaisesStop == mainpc = "fatal" => stop

\* a flush that leaves the buffer non-empty has failed
FlushFails == mainpc = "gate" /\ mainpc' # "gate" /\ buf' # <<>>

\* C24 (amended): when a flush fails writeANSIFrames returns the error without
\* taking, encoding or flushing any later frame and main ends the process
\* with log.Fatal (exit status 1); the stop channel is not closed by this,
\* the upstream goroutines end with the process.
C24_FlushErrorExits ==
    /\ [][FlushFails => (mainpc' = "fatal" /\ proc' = "exit1" /\ stop' = stop
                           /\ recvd' = recvd /\ UNCHANGED stageVars)]_vars
    /\ [][mainpc = "fatal" => UNCHANGED <<out, buf, recvd, stop, stageVars>>]_vars

C24_Witness ==
    /\ mainpc = "fatal" /\ proc = "exit1" /\ ~stop /\ buf # <<>>
    /\ Len(recvd) = 1 /\ rz.pc = "send" /\ lp.pc = "collect"

\* C25 (as stated): decodeFramesGIF returns no error when it stops because
\* the stop channel was closed, so decoding never ends the process.
C25_NoErrorOnStop == ~(mainpc = "decode" /\ proc = "exit1")

\* C25 (amended): writeANSIFrames returns nil when it stops because the stop
\* channel was closed, and main goes on to its deferred function; a GIF whose
\* compositing finds the stop channel closed is not decoded: decodeFramesGIF
\* returns an error and main ends the process with log.Fatal.
C25_InterruptReported ==
    /\ [][(mainpc = "select" /\ mainpc' # "select" /\ recvd' = recvd)
             => (mainpc' = "defer" /\ proc' = "running")]_vars
    /\ [][(stop /\ mainpc = "decode" /\ argi <= Len(args)
             /\ args[argi].kind = "gif") => argi' = argi]_vars
    /\ []((mainpc = "decode" /\ proc = "exit1")
             => (stop /\ args[argi].kind = "gif"))

C25_Witness ==
    /\ mainpc = "decode" /\ proc = "exit1" /\ stop /\ argi = 2
    /\ args[2].kind = "gif"

\* C26: the stop channel is closed at most once in every execution, however
\* many interrupts are delivered and however they interleave with the signal
\* goroutine: no close of a closed channel, no panic.
C26_StopClosedOnce == proc # "panic"

\* C27: every frame emitted by ResizeFrames carries the Delay and the
\* LoopCount of the input frame it was computed from.
C27_ResizeKeepsDelayAndLoopCount ==
    rz.pc = "send" =>
        \A a \in DOMAIN args :
            \A j \in 1..args[a].n :
                rz.f.id = SourceFrame(a, j).id =>
                    /\ rz.f.Delay = SourceFrame(a, j).Delay
                    /\ rz.f.LoopCount = SourceFrame(a, j).LoopCount

\* C28 (as stated): every channel between two stages holds at most one frame
\* sent and not yet received.
C28_AtMostOneInFlight == \A a \in DOMAIN args : Len(src[a].buf) <= 1

\* the frames of argument a sent and not yet received, oldest first
InFlight(a) ==
    LET sent == IF args[a].kind = "gif" THEN sender[a].i - 1
                ELSE IF src[a].closed THEN 1 ELSE 0
        k == Len(src[a].buf)
    IN  [m \in 1..k |-> SourceFrame(a, sent - k + m)]

\* C28 (amended): the channels into ResizeFrames, from ResizeFrames to
\* LoopFrames and from LoopFrames to writeANSIFrames are unbuffered and hold
\* no frame; the channel decodeFramesGIF returns has room for every frame of
\* the GIF (the one decodeFrames returns has room for one) and holds, in
\* source order, the frames sent and not yet received, at most as many as the
\* argument has.
C28_DecodeChannelHoldsAll ==
    \A a \in DOMAIN args :
        /\ Len(src[a].buf) <= args[a].n
        /\ Len(src[a].buf) <= (IF args[a].kind = "gif" THEN sender[a].i - 1 ELSE 1)
        /\ src[a].buf = InFlight(a)

C28_Witness ==
    \E a \in DOMAIN args :
        /\ Len(src[a].buf) = 2 /\ sender[a].pc = "run"
        /\ cat.pc = "recv" /\ cat.ci = a

\* every stage goroutine has returned
StagesExited ==
    /\ cat.pc = "done" /\ rz.pc = "done" /\ lp.pc = "done"
    /\ \A a \in DOMAIN args : sender[a].pc \in {"idle", "done"}
    /\ \A a \in DOMAIN args : src[a].buf = <<>> /\ src[a].closed

Terminated ==
    /\ mainpc = "exited" /\ proc = "exit0"
    /\ w.nframe = Total * (opts.Repeat + 1)
    /\ Len(recvd) = Total * (opts.Repeat + 1)
    /\ buf = <<>>
    /\ StagesExited

\* C29: with a finite source of N frames, Repeat R >= 0, no interrupt and no
\* write error the pipeline terminates under fair scheduling:
\* writeANSIFrames returns nil after flushing exactly N * (R + 1) frames and
\* every stage goroutine has exited; no state on the way is a deadlock.
C29_Terminates == <>[]Terminated

C29_Witness ==
    /\ Terminated /\ Total = 2 /\ opts.Repeat = 1 /\ w.nframe = 4
    /\ Len(args) = 2

\* C30: if the source closes without yielding any frame LoopFrames emits
\* nothing and closes its output for every Repeat value, the negative ones
\* included: it never starts to replay an empty sequence.
C30_EmptySourceCloses ==
    /\ [][(lp.pc = "collect" /\ lp.all = <<>> /\ lp' # lp /\ lp'.all = <<>>)
             => lp'.pc = "done"]_vars
    /\ [](lp.all = <<>> => (recvd = <<>> /\ lp.pc \in {"idle", "collect", "done"}))

C30_Witness ==
    /\ lp.pc = "done" /\ lp.all = <<>> /\ rz.pc = "done" /\ ~stop
    /\ opts.Repeat = -1 /\ recvd = <<>> /\ mainpc = "defer"

\* C39: colorScale256 scales a 16-bit channel to 8 bits: for every 16-bit
\* value the result lies in 0..255, and the result for the 16-bit expansion
\* b * 257 of an 8-bit value b is b.
Scales8(v, s) == s \in 0..255 /\ (v % 257 = 0 => s = v \div 257)
C39_ScaleTo8Bits ==
    quant.pc = "done" =>
        /\ Scales8(quant.c.r, quant.scaled.r)
        /\ Scales8(quant.c.g, quant.scaled.g)
        /\ Scales8(quant.c.b, quant.scaled.b)

Red16 == [r |-> 257 * 191, g |-> 257 * 25, b |-> 257 * 25, a |-> 65535]

\* C37: the latched encoding is display-equivalent to writing a code before
\* every pixel: when the space of a pixel is written the color code written
\* last equals the quantized code of that pixel, on every row, the first
\* pixel after the reset of the row before included.
C37_LatchShowsPixelCode ==
    enc.pc = "done" =>
        \A y \in 1..enc.img.Y :
            \A x \in 1..enc.img.X :
                /\ SpaceOf(enc, y, x) > 0
                /\ LastCodeBefore(enc.text, SpaceOf(enc, y, x))
                       = ANSI(enc.p, enc.img.pix[y][x], enc.threshold)

C37_Witness ==
    /\ enc.pc = "done" /\ enc.p = "8" /\ enc.pad = <<Sp>>
    /\ enc.img.X = 1 /\ enc.img.Y = 2
    /\ enc.img.pix[1][1] = Red16 /\ enc.img.pix[2][1] = Red16
    /\ enc.text = <<Sp, Bg8(1), Sp, Sp, Clear, Nl, Sp, Bg8(1), Sp, Sp, Clear, Nl>>

\* C38: at every newline written by writeANSIPixels the color code written
\* last in the frame is the reset code ESC[0m, whatever the pixels are.
C38_ResetAtNewline ==
    enc.pc = "done" =>
        \A k \in 1..Len(enc.text) :
            enc.text[k] = Nl =>
                \E j \in 1..(k - 1) :
                    /\ enc.text[j] = Clear
                    /\ \A m \in (j + 1)..(k - 1) : ~IsCode(enc.text[m])

C38_Witness ==
    /\ enc.pc = "done" /\ enc.p = "gray" /\ enc.pad = <<>>
    /\ enc.img.X = 2 /\ enc.img.Y = 2
    /\ enc.img.pix[1][2].a = 0 /\ enc.img.pix[2][1].a = 0 /\ enc.img.pix[2][2].a = 0
    /\ enc.img.pix[1][1] = Red16
    /\ Count(enc.text, Clear) = 1 /\ Count(enc.text, Nl) = 2

\* layer i is Image[i + 1] and its composited frame is Frames[i + 1]
Rendered(i) == rend.pc = "ready" /\ i + 1 <= Len(rend.Frames)

\* layer m writes the pixel x of the canvas
Overwrites(m, x) ==
    /\ m.Min <= x /\ x < m.Max
    /\ ~(m.HasTransparent /\ m.pix[x] = m.Transparent)

BackgroundColor == GIFPalette[GIF.BackgroundIndex]

\* C31: composited frames already emitted are never changed by later
\* compositing: Frames[j] stays pixel for pixel what it was when it was
\* appended.
C31_FramesAreSnapshots ==
    rend.pc = "ready" =>
        /\ Len(rend.Frames) = Len(rend.appended)
        /\ \A j \in 1..Len(rend.Frames) : rend.Frames[j] = rend.appended[j]

C31_Witness ==
    /\ rend.pc = "ready" /\ Len(rend.Frames) = 2 /\ GIF.Width = 2
    /\ rend.Frames[1] = rend.appended[1]
    /\ rend.frame # rend.Frames[1]
    /\ rend.Frames[2] # rend.Frames[1]
    /\ rend.ids = <<2, 3>> /\ rend.canvas = 1

\* C32: for every layer i > 0 whose preceding layer has disposal Background,
\* every pixel of composited frame i that layer i does not overwrite has the
\* GIF's global background color.
C32_BackgroundFills ==
    \A i \in 1..MaxLayers :
        (Rendered(i) /\ GIF.Image[i].Disposal = "background") =>
            \A x \in 0..(GIF.Width - 1) :
                ~Overwrites(GIF.Image[i + 1], x) =>
                    rend.Frames[i + 1][x] = BackgroundColor

C32_Witness ==
    /\ Rendered(1) /\ GIF.Image[1].Disposal = "background" /\ GIF.Width = 2
    /\ GIF.BackgroundIndex = 1
    /\ rend.Frames[1] = [x \in 0..1 |-> GIFPalette[0]]
    /\ ~Overwrites(GIF.Image[2], 0) /\ Overwrites(GIF.Image[2], 1)
    /\ rend.Frames[2] = [x \in 0..1 |-> IF x = 0 THEN GIFPalette[1] ELSE GIFPalette[0]]

\* C33: for every layer i > 0 whose preceding layer has disposal None or
\* Unspecified, every pixel of composited frame i that layer i does not
\* overwrite equals the same pixel of composited frame i-1.
C33_NoneKeepsCanvas ==
    \A i \in 1..MaxLayers :
        (Rendered(i) /\ GIF.Image[i].Disposal = "none") =>
            \A x \in 0..(GIF.Width - 1) :
                ~Overwrites(GIF.Image[i + 1], x) =>
                    rend.Frames[i + 1][x] = rend.Frames[i][x]

C33_Witness ==
    /\ Rendered(1) /\ GIF.Image[1].Disposal = "none" /\ GIF.Width = 2
    /\ rend.Frames[1] = [x \in 0..1 |-> GIFPalette[0]]
    /\ GIF.Image[2].Min = 0 /\ GIF.Image[2].Max = 2
    /\ ~Overwrites(GIF.Image[2], 0) /\ Overwrites(GIF.Image[2], 1)
    /\ rend.Frames[2] = [x \in 0..1 |-> IF x = 0 THEN GIFPalette[0] ELSE GIFPalette[1]]

\* C34: within layer i's rectangle a pixel whose color index is not the
\* transparent index declared for the layer is set in composited frame i to
\* exactly that entry of the layer's palette; a pixel carrying the declared
\* transparent index leaves the canvas value unchanged.
C34_PixelsWrittenDirectly ==
    \A i \in 0..MaxLayers :
        Rendered(i) =>
            \A x \in GIF.Image[i + 1].Min..(GIF.Image[i + 1].Max - 1) :
                IF Overwrites(GIF.Image[i + 1], x)
                THEN rend.Frames[i + 1][x] = GIFPalette[GIF.Image[i + 1].pix[x]]
                ELSE rend.Frames[i + 1][x] = rend.before[i + 1][x]

C34_Witness ==
    /\ Rendered(1) /\ GIF.Image[1].Disposal = "none" /\ GIF.Width = 2
    /\ rend.Frames[1] = [x \in 0..1 |-> GIFPalette[1]]
    /\ GIF.Image[2].Min = 0 /\ GIF.Image[2].Max = 2
    /\ GIF.Image[2].HasTransparent
    /\ GIF.Image[2].pix = [x \in 0..1 |-> IF x = 0 THEN 1 ELSE 0]
    /\ rend.Frames[2] = [x \in 0..1 |-> GIFPalette[1]]

\* C35: before layer 0 is drawn the canvas is created once and filled
\* entirely with the global background color if the disposal of the last
\* layer is Background, and entirely with the transparent value otherwise;
\* the canvas object is never created again for a later layer.
C35_CanvasCreatedOnce ==
    /\ [](Rendered(0) =>
            /\ rend.before[1] =
                  [x \in 0..(GIF.Width - 1) |->
                      IF GIF.Image[NLayers].Disposal = "background"
                      THEN BackgroundColor ELSE Transparent]
            /\ rend.canvas = 1
            /\ Len(rend.objs) = 1 + Len(rend.Frames))
    /\ [][rend.canvas # 0 => rend'.canvas = rend.canvas]_vars

C35_Witness ==
    /\ Rendered(1) /\ GIF.Image[2].Disposal = "background" /\ GIF.Width = 2
    /\ GIF.BackgroundIndex = 0
    /\ rend.before[1] = [x \in 0..1 |-> GIFPalette[0]]
    /\ rend.canvas = 1 /\ Len(rend.objs) = 3

\* C36: compositing never faults: for every decoded GIF with at least one
\* layer, whatever its disposal values, its background color index and its
\* global color table, renderFrame completes for every layer without a
\* run-time panic.
C36_CompositingNeverFaults == NLayers >= 1 => rend.pc # "panic"

====
